---- MODULE Spec2Model ----
(***************************************************************************)
(* MagPoseFactor<POSE> (gtsam_unstable/slam/MagPoseFactor.h): a unary      *)
(* factor on a Pose2 or Pose3 that compares a magnetometer reading with    *)
(* the local magnetic field rotated into the sensor frame.                 *)
(*                                                                         *)
(* Numbers are integers; the rotations used are quarter turns, whose       *)
(* matrices are integer, and the directions used have integer norms that   *)
(* divide scale * direction, so every quantity of the factor is exact.     *)
(* Floating-point rounding is not modelled.                                *)
(***************************************************************************)
EXTENDS Integers, Sequences, FiniteSets, TLC

(***************************************************************************)
(* Bounds of the model.                                                    *)
(***************************************************************************)
\* Factor objects that may be alive at once.
MaxObjs == 2
\* Factor objects that may be alive at once where factors are evaluated.
MaxEvalObjs == 1
\* equals() is called with a tolerance in 0..MaxTol.
MaxTol == 1
\* Directions are compared with their multiples by 1..MaxMult.
MaxMult == 2
\* Threads that call into one factor concurrently.
NumThreads == 2

(***************************************************************************)
(* Vectors and matrices (Eigen).  A vector is a sequence of integers, a    *)
(* matrix a sequence of rows.  Sequences are 1-based: column j of the code *)
(* is index j + 1 here.                                                    *)
(***************************************************************************)
Abs(x) == IF x < 0 THEN -x ELSE x

VAdd(a, b) == [i \in 1..Len(a) |-> a[i] + b[i]]

VSub(a, b) == [i \in 1..Len(a) |-> a[i] - b[i]]

Times(k, v) == [i \in 1..Len(v) |-> k * v[i]]

RECURSIVE SumTo(_, _)
SumTo(f, n) == IF n = 0 THEN 0 ELSE f[n] + SumTo(f, n - 1)

Dot(a, b) == SumTo([i \in 1..Len(a) |-> a[i] * b[i]], Len(a))

Zero(r, c) == [i \in 1..r |-> [j \in 1..c |-> 0]]

Rows(M) == Len(M)

Cols(M) == IF Len(M) = 0 THEN 0 ELSE Len(M[1])

Transpose(M) == [j \in 1..Cols(M) |-> [i \in 1..Rows(M) |-> M[i][j]]]

MatVec(M, v) == [i \in 1..Rows(M) |-> Dot(M[i], v)]

MatMul(A, B) ==
    [i \in 1..Rows(A) |-> [j \in 1..Cols(B) |-> Dot(A[i], Transpose(B)[j])]]

\* skewSymmetric(wx, wy, wz) of gtsam/base/Matrix.h
skewSymmetric(w) ==
    << <<0, -w[3], w[2]>>,
       <<w[3], 0, -w[1]>>,
       <<-w[2], w[1], 0>> >>

\* Eigen: v.norm() for the vectors of the model, whose norms are integers.
norm(v) == CHOOSE n \in 0..Dot(v, v) : n * n = Dot(v, v)

(***************************************************************************)
(* The pose types (gtsam/geometry).  POSE is "Pose2" or "Pose3".           *)
(***************************************************************************)
PoseTypes == {"Pose2", "Pose3"}

\* typename POSE::Rotation
Rotation(P) == IF P = "Pose2" THEN "Rot2" ELSE "Rot3"

\* traits<T>::dimension
dimension(T) ==
    CASE T = "Pose2" -> 3
      [] T = "Pose3" -> 6
      [] T = "Rot2" -> 1
      [] T = "Rot3" -> 3

\* POSE::Translation::RowsAtCompileTime (Vector2 or Vector3)
RowsAtCompileTime(P) == IF P = "Pose2" THEN 2 ELSE 3

\* POSE::rotationInterval(): first and last column of the rotation block.
rotationInterval(P) == IF P = "Pose2" THEN <<2, 2>> ELSE <<0, 2>>

\* POSE::translationInterval()
translationInterval(P) == IF P = "Pose2" THEN <<0, 1>> ELSE <<3, 5>>

\* A Rot2 is [c, s] (cosine and sine); a Rot3 is [m], its 3x3 matrix.
\* Rot::operator*
RotMul(P, A, B) ==
    IF P = "Pose2"
    THEN [c |-> A.c * B.c - A.s * B.s, s |-> A.s * B.c + A.c * B.s]
    ELSE [m |-> MatMul(A.m, B.m)]

\* Rot::rotate(p)
rotate(P, R, p) ==
    IF P = "Pose2"
    THEN <<R.c * p[1] - R.s * p[2], R.s * p[1] + R.c * p[2]>>
    ELSE MatVec(R.m, p)

\* Rot::unrotate(p, H1, boost::none): q = R^T p, and H1, the derivative of q
\* in the rotation's own local coordinates (MeasDim x RotDim).
unrotate(P, R, p) ==
    IF P = "Pose2"
    THEN LET q == <<R.c * p[1] + R.s * p[2], -R.s * p[1] + R.c * p[2]>>
         IN  [q |-> q, H1 |-> << <<q[2]>>, <<-q[1]>> >>]
    ELSE LET q == MatVec(Transpose(R.m), p)
         IN  [q |-> q, H1 |-> skewSymmetric(q)]

\* First-order term of R.retract(w) - R: Rot2 turns by the angle w[1],
\* Rot3 is multiplied on the right by Expmap(w) = I + [w]x + O(|w|^2).
RotTangent(P, R, w) ==
    IF P = "Pose2"
    THEN [c |-> -R.s * w[1], s |-> R.c * w[1]]
    ELSE [m |-> MatMul(R.m, skewSymmetric(w))]

\* The rotational coordinates of a tangent vector d of the pose.
RotPart(P, d) ==
    [i \in 1..dimension(Rotation(P)) |-> d[rotationInterval(P)[1] + i]]

(***************************************************************************)
(* Values the model draws its inputs from.                                 *)
(***************************************************************************)
\* A point of the pose type's dimension.
Pt(P, x, y, z) == IF P = "Pose2" THEN <<x, y>> ELSE <<x, y, z>>

Identity(P) ==
    IF P = "Pose2" THEN [c |-> 1, s |-> 0]
    ELSE [m |-> << <<1, 0, 0>>, <<0, 1, 0>>, <<0, 0, 1>> >>]

\* A quarter turn: about the plane's normal, or about z.
QuarterZ(P) ==
    IF P = "Pose2" THEN [c |-> 0, s |-> 1]
    ELSE [m |-> << <<0, -1, 0>>, <<1, 0, 0>>, <<0, 0, 1>> >>]

\* A half turn in the plane; a quarter turn about x in space.
QuarterX(P) ==
    IF P = "Pose2" THEN [c |-> -1, s |-> 0]
    ELSE [m |-> << <<1, 0, 0>>, <<0, 0, -1>>, <<0, 1, 0>> >>]

Rotations(P) == {Identity(P), QuarterZ(P), QuarterX(P)}

Translations(P) == {Pt(P, 0, 0, 0), Pt(P, 2, -1, 3)}

\* Candidate poses handed to evaluateError.
Poses(P) == [R : Rotations(P), t : Translations(P)]

(***************************************************************************)
(* The factor.  An absent optional (boost::optional, a null shared_ptr) is *)
(* <<>>, a present one is <<v>>.                                           *)
(***************************************************************************)
\* static const int MeasDim, PoseDim, RotDim
MeasDim(P) == RowsAtCompileTime(P)

PoseDim(P) == dimension(P)

RotDim(P) == dimension(Rotation(P))

\* nM_(scale * direction.normalized()) without normalizing.
LocalFieldNotNormalized(scale, direction) == Times(scale, direction)

\* nM_(scale * direction.normalized())
LocalField(scale, direction) ==
    [i \in 1..Len(direction) |-> (scale * direction[i]) \div norm(direction)]

\* MagPoseFactor(pose_key, measured, scale, direction, bias, model, body_P_sensor)
MagPoseFactor(pose_key, measured, scale, direction, bias, model, body_P_sensor) ==
    [type |-> "MagPoseFactor",
     keys |-> <<pose_key>>,
     noiseModel |-> model,
     measured_ |-> measured,
     nM_ |-> LocalField(scale, direction),
     bias_ |-> bias,
     body_P_sensor_ |-> body_P_sensor]

\* MagPoseFactor(): no key, no noise model, no mount; the three vectors are
\* left uninitialized and hold whatever g gives them.
DefaultFactor(g) ==
    [type |-> "MagPoseFactor",
     keys |-> <<>>,
     noiseModel |-> <<>>,
     measured_ |-> g[1],
     nM_ |-> g[2],
     bias_ |-> g[3],
     body_P_sensor_ |-> <<>>]

\* A factor of another class on the same variables.
OtherFactor(P, key, model) ==
    [type |-> "NonlinearFactor",
     keys |-> <<key>>,
     noiseModel |-> model,
     measured_ |-> Pt(P, 0, 0, 0),
     nM_ |-> Pt(P, 0, 0, 0),
     bias_ |-> Pt(P, 0, 0, 0),
     body_P_sensor_ |-> <<>>]

\* const Rot nRs = body_P_sensor_ ? nPb.rotation() * body_P_sensor_->rotation()
\*                                : nPb.rotation();
SensorRotation(P, f, nPb) ==
    IF f.body_P_sensor_ # <<>>
    THEN RotMul(P, nPb.R, f.body_P_sensor_[1].R)
    ELSE nPb.R

\* The prediction made from the whole pose (transformTo) instead of its rotation.
PredictFromPose(P, f, nPb) ==
    LET u == unrotate(P, SensorRotation(P, f, nPb), VSub(f.nM_, nPb.t))
    IN  [hx |-> VAdd(u.q, f.bias_), H_rot |-> u.H1]

\* Matrix H_rot = Matrix::Zero(MeasDim, RotDim);
\* const Point hx = nRs.unrotate(nM_, H_rot, boost::none) + bias_;
PredictAt(P, f, nRs) ==
    LET u == unrotate(P, nRs, f.nM_)
    IN  [hx |-> VAdd(u.q, f.bias_), H_rot |-> u.H1]

\* The first two statements of evaluateError.
Predict(P, f, nPb) == PredictAt(P, f, SensorRotation(P, f, nPb))

\* The block taken MeasDim columns wide.
BlockColsMeasWide(P) ==
    {j \in 1..(rotationInterval(P)[1] + MeasDim(P)) : rotationInterval(P)[1] < j}

\* The columns of (*H).block(0, rot0, MeasDim, RotDim), 1-based.
BlockCols(P) ==
    {j \in 1..(rotationInterval(P)[1] + RotDim(P)) : rotationInterval(P)[1] < j}

\* The block written into the slot as it is when it already has the shape.
JacobianFillKeep(P, Hin, H_rot) ==
    LET shaped == /\ Rows(Hin) = MeasDim(P)
                  /\ Cols(Hin) = PoseDim(P)
        base == IF shaped THEN Hin ELSE Zero(MeasDim(P), PoseDim(P))
    IN  [i \in 1..MeasDim(P) |->
            [j \in 1..PoseDim(P) |->
                IF j \in BlockCols(P)
                THEN H_rot[i][j - rotationInterval(P)[1]]
                ELSE base[i][j]]]

\* *H = Matrix::Zero(MeasDim, PoseDim);
\* (*H).block(0, rot0, MeasDim, RotDim) = H_rot;
JacobianFill(P, Hin, H_rot) ==
    [i \in 1..MeasDim(P) |->
        [j \in 1..PoseDim(P) |->
            IF j \in BlockCols(P)
            THEN H_rot[i][j - rotationInterval(P)[1]]
            ELSE 0]]

\* The residual with the sign reversed.
ResidualReversed(hx, measured) == VSub(measured, hx)

\* return (hx - measured_);
Residual(hx, measured) == VSub(hx, measured)

\* evaluateError(nPb, H): the residual, and the slot's content on return
\* (Hin, untouched, when no slot is passed).
evaluateError(P, f, nPb, hasH, Hin) ==
    LET p == Predict(P, f, nPb)
    IN  [ret |-> Residual(p.hx, f.measured_),
         H |-> IF hasH THEN JacobianFill(P, Hin, p.H_rot) ELSE Hin]

\* gtsam::equal_with_abs_tol(A, B, tol) on two vectors
equal_with_abs_tol(a, b, tol) ==
    /\ Len(a) = Len(b)
    /\ \A i \in 1..Len(a) : Abs(a[i] - b[i]) <= tol

\* A noise model is [sigma]; noiseModel::Base::equals(other, tol)
NoiseModelEquals(m, n, tol) == Abs(m.sigma - n.sigma) <= tol

\* Base::equals(*e, tol), of NoiseModelFactor: the same keys, and noise
\* models that are both null or equal within tol.
BaseEquals(f, e, tol) ==
    /\ f.keys = e.keys
    /\ \/ f.noiseModel = <<>> /\ e.noiseModel = <<>>
       \/ /\ f.noiseModel # <<>>
          /\ e.noiseModel # <<>>
          /\ NoiseModelEquals(f.noiseModel[1], e.noiseModel[1], tol)

\* equals() that compares the sensor mount as well.
equalsWithMount(f, e, tol) ==
    /\ e.type = "MagPoseFactor"
    /\ BaseEquals(f, e, tol)
    /\ equal_with_abs_tol(f.measured_, e.measured_, tol)
    /\ equal_with_abs_tol(f.nM_, e.nM_, tol)
    /\ equal_with_abs_tol(f.bias_, e.bias_, tol)
    /\ f.body_P_sensor_ = e.body_P_sensor_

\* bool equals(const NonlinearFactor& expected, double tol)
equals(f, e, tol) ==
    /\ e.type = "MagPoseFactor"
    /\ BaseEquals(f, e, tol)
    /\ equal_with_abs_tol(f.measured_, e.measured_, tol)
    /\ equal_with_abs_tol(f.nM_, e.nM_, tol)
    /\ equal_with_abs_tol(f.bias_, e.bias_, tol)

\* clone() that hands out the factor itself instead of a copy.
cloneAlias(hp, o) == [heap |-> hp, ret |-> o]

\* clone(): new This(*this), a new object holding a copy of every member.
clone(hp, o) == [heap |-> Append(hp, hp[o]), ret |-> Len(hp) + 1]

\* serialize() into an output archive: the fields, in the order written.
serializeSave(f) ==
    << <<"NoiseModelFactor1", [keys |-> f.keys, noiseModel |-> f.noiseModel]>>,
       <<"measured_", f.measured_>>,
       <<"nM_", f.nM_>>,
       <<"bias_", f.bias_>>,
       <<"body_P_sensor_", f.body_P_sensor_>> >>

\* serialize() from an input archive that does not read the sensor mount.
serializeLoadNoMount(f, ar) ==
    [f EXCEPT !.keys = ar[1][2].keys,
              !.noiseModel = ar[1][2].noiseModel,
              !.measured_ = ar[2][2],
              !.nM_ = ar[3][2],
              !.bias_ = ar[4][2]]

\* serialize() from an input archive: the fields are read in the same order.
serializeLoad(f, ar) ==
    [f EXCEPT !.keys = ar[1][2].keys,
              !.noiseModel = ar[1][2].noiseModel,
              !.measured_ = ar[2][2],
              !.nM_ = ar[3][2],
              !.bias_ = ar[4][2],
              !.body_P_sensor_ = ar[5][2]]

(***************************************************************************)
(* Arguments the factors of the model are constructed from.                *)
(***************************************************************************)
Sigma(n) == <<[sigma |-> n]>>

BaseArgs(P) ==
    [pose_key |-> 1,
     measured |-> Pt(P, 4, 4, 0),
     scale |-> 5,
     direction |-> Pt(P, 3, 4, 0),
     bias |-> Pt(P, 1, 0, 0),
     model |-> Sigma(1),
     body_P_sensor |-> <<>>]

MountOffset(P) == [R |-> Identity(P), t |-> Pt(P, 1, 1, 1)]

MountTurned(P) == [R |-> QuarterX(P), t |-> Pt(P, 0, 1, 0)]

\* Factors that are evaluated: the base factor, and factors that differ from
\* it in the mount, the direction's length or heading, the scale, the
\* measurement or the bias.
EvalArgs(P) ==
    {BaseArgs(P),
     [BaseArgs(P) EXCEPT !.body_P_sensor = <<MountOffset(P)>>],
     [BaseArgs(P) EXCEPT !.body_P_sensor = <<MountTurned(P)>>],
     [BaseArgs(P) EXCEPT !.direction = Pt(P, 0, 3, 0)],
     [BaseArgs(P) EXCEPT !.scale = 10],
     [BaseArgs(P) EXCEPT !.measured = Pt(P, 5, 4, 0)],
     [BaseArgs(P) EXCEPT !.bias = Pt(P, 0, 2, 1)],
     [BaseArgs(P) EXCEPT !.body_P_sensor = <<MountTurned(P)>>,
                         !.scale = 10, !.bias = Pt(P, 0, 2, 1)]}
    \cup {[BaseArgs(P) EXCEPT !.direction = Times(k, @)] :
            k \in 1..MaxMult}

\* Factors that are compared: each differs from the base factor in one field.
EqArgs(P) ==
    {BaseArgs(P),
     [BaseArgs(P) EXCEPT !.measured = Pt(P, 5, 4, 0)],
     [BaseArgs(P) EXCEPT !.direction = Pt(P, 4, 3, 0)],
     [BaseArgs(P) EXCEPT !.direction = Pt(P, 0, 3, 0)],
     [BaseArgs(P) EXCEPT !.bias = Pt(P, 1, 2, 0)],
     [BaseArgs(P) EXCEPT !.pose_key = 2],
     [BaseArgs(P) EXCEPT !.model = Sigma(4)],
     [BaseArgs(P) EXCEPT !.body_P_sensor = <<MountTurned(P)>>]}

\* Factors that are serialized.
SerArgs(P) ==
    {BaseArgs(P),
     [BaseArgs(P) EXCEPT !.body_P_sensor = <<MountTurned(P)>>],
     [BaseArgs(P) EXCEPT !.pose_key = 2, !.model = Sigma(4),
                         !.measured = Pt(P, 5, 4, 0), !.bias = Pt(P, 1, 2, 0),
                         !.body_P_sensor = <<MountOffset(P)>>]}

\* What the uninitialized vectors of a default-constructed factor may hold.
Uninitialized(P) ==
    {<<Pt(P, 0, 0, 0), Pt(P, 0, 0, 0), Pt(P, 0, 0, 0)>>,
     <<Pt(P, 7, -7, 7), Pt(P, -9, 9, 9), Pt(P, 8, 8, -8)>>}

\* What a Jacobian slot may hold before a call: nothing, or a matrix of the
\* result's shape or of another shape, left by the caller.
PriorSlots(P) ==
    {<<>>,
     [i \in 1..MeasDim(P) |-> [j \in 1..PoseDim(P) |-> 7]],
     << <<7>> >>}

(***************************************************************************)
(* The state: the pose type the template is instantiated with, the factor  *)
(* objects alive (an object is its index in heap), the archive last        *)
(* written, and the last call made with what it returned.  Threads that    *)
(* call into the factor heap[1] have a position pc, the call they are in,  *)
(* the automatic variables of that call (frame) and what it returned.      *)
(***************************************************************************)
VARIABLES POSE, heap, archive, last, pc, call, frame, result

vars == <<POSE, heap, archive, last, pc, call, frame, result>>

threadVars == <<pc, call, frame, result>>

Threads == 1..NumThreads

Objects == 1..Len(heap)

IsMag(o) == heap[o].type = "MagPoseFactor"

NoCall ==
    [op |-> "none", this |-> 0, other |-> 0, args |-> <<>>, nPb |-> <<>>,
     hasH |-> FALSE, Hin |-> <<>>, tol |-> 0, fresh |-> FALSE,
     retV |-> <<>>, retH |-> <<>>, retB |-> FALSE, retO |-> 0]

EmptyFrame(P) ==
    [nRs |-> Identity(P), H_rot |-> Zero(MeasDim(P), RotDim(P)),
     hx |-> Pt(P, 0, 0, 0)]

InitThreads ==
    /\ pc = [t \in Threads |-> "idle"]
    /\ call = [t \in Threads |-> NoCall]
    /\ frame = [t \in Threads |-> EmptyFrame(POSE)]
    /\ result = [t \in Threads |-> NoCall]

Init ==
    /\ POSE \in PoseTypes
    /\ heap = <<>>
    /\ archive = <<>>
    /\ last = NoCall
    /\ InitThreads

(***************************************************************************)
(* Calls made one at a time.                                               *)
(***************************************************************************)
Construct(a) ==
    /\ heap' = Append(heap, MagPoseFactor(a.pose_key, a.measured, a.scale,
                                          a.direction, a.bias, a.model,
                                          a.body_P_sensor))
    /\ last' = [NoCall EXCEPT !.op = "MagPoseFactor", !.args = <<a>>,
                              !.retO = Len(heap) + 1]
    /\ UNCHANGED <<POSE, archive, threadVars>>

DefaultConstruct(g) ==
    /\ Len(heap) < MaxObjs
    /\ heap' = Append(heap, DefaultFactor(g))
    /\ last' = [NoCall EXCEPT !.op = "MagPoseFactor()", !.retO = Len(heap) + 1]
    /\ UNCHANGED <<POSE, archive, threadVars>>

ConstructOther(key, model) ==
    /\ Len(heap) < MaxObjs
    /\ heap' = Append(heap, OtherFactor(POSE, key, model))
    /\ last' = [NoCall EXCEPT !.op = "NonlinearFactor", !.retO = Len(heap) + 1]
    /\ UNCHANGED <<POSE, archive, threadVars>>

CallEvaluateError(o, nPb, hasH, Hin) ==
    /\ IsMag(o)
    /\ hasH \/ Hin = <<>>
    /\ LET r == evaluateError(POSE, heap[o], nPb, hasH, Hin)
       IN  last' = [NoCall EXCEPT !.op = "evaluateError", !.this = o,
                                  !.nPb = <<nPb>>, !.hasH = hasH, !.Hin = Hin,
                                  !.retV = r.ret, !.retH = r.H]
    /\ UNCHANGED <<POSE, heap, archive, threadVars>>

CallEquals(o, e, tol) ==
    /\ IsMag(o)
    /\ last' = [NoCall EXCEPT !.op = "equals", !.this = o, !.other = e,
                              !.tol = tol,
                              !.retB = equals(heap[o], heap[e], tol)]
    /\ UNCHANGED <<POSE, heap, archive, threadVars>>

CallClone(o) ==
    /\ IsMag(o)
    /\ Len(heap) < MaxObjs
    /\ LET r == clone(heap, o)
       IN  /\ heap' = r.heap
           /\ last' = [NoCall EXCEPT !.op = "clone", !.this = o, !.retO = r.ret]
    /\ UNCHANGED <<POSE, archive, threadVars>>

Save(o) ==
    /\ IsMag(o)
    /\ archive' = serializeSave(heap[o])
    /\ last' = [NoCall EXCEPT !.op = "save", !.this = o]
    /\ UNCHANGED <<POSE, heap, threadVars>>

Load(o) ==
    /\ IsMag(o)
    /\ archive # <<>>
    /\ heap' = [heap EXCEPT ![o] = serializeLoad(@, archive)]
    /\ last' = [NoCall EXCEPT !.op = "load", !.this = o,
                              !.fresh = (heap[o].keys = <<>>)]
    /\ UNCHANGED <<POSE, archive, threadVars>>

\* Construction and evaluation.
Next ==
    \/ \E a \in EvalArgs(POSE) : Len(heap) < MaxEvalObjs /\ Construct(a)
    \/ \E o \in Objects, nPb \in Poses(POSE), hasH \in BOOLEAN,
          Hin \in PriorSlots(POSE) : CallEvaluateError(o, nPb, hasH, Hin)

Spec == Init /\ [][Next]_vars

\* Construction, comparison and copying.
NextEq ==
    \/ \E a \in EqArgs(POSE) : Len(heap) < MaxObjs /\ Construct(a)
    \/ \E g \in Uninitialized(POSE) : DefaultConstruct(g)
    \/ ConstructOther(1, Sigma(1))
    \/ \E o \in Objects, e \in Objects, tol \in 0..MaxTol : CallEquals(o, e, tol)
    \/ \E o \in Objects : CallClone(o)

SpecEq == Init /\ [][NextEq]_vars

\* Construction and persistence.
NextSer ==
    \/ \E a \in SerArgs(POSE) : Len(heap) < MaxObjs /\ Construct(a)
    \/ \E g \in Uninitialized(POSE) : DefaultConstruct(g)
    \/ \E o \in Objects : Save(o)
    \/ \E o \in Objects : Load(o)

SpecSer == Init /\ [][NextSer]_vars

(***************************************************************************)
(* Calls made by several threads on the factor heap[1].  evaluateError is  *)
(* taken one statement at a time; its automatic variables nRs, H_rot and   *)
(* hx live in the frame of the call, and the Jacobian slot is the caller's.*)
(***************************************************************************)
\* Factors the threads call into.
ConcArgs(P) ==
    {BaseArgs(P),
     [BaseArgs(P) EXCEPT !.body_P_sensor = <<MountTurned(P)>>,
                         !.bias = Pt(P, 0, 2, 1)]}

\* Poses the threads evaluate.
ConcPoses(P) ==
    {[R |-> QuarterZ(P), t |-> Pt(P, 2, -1, 3)],
     [R |-> QuarterX(P), t |-> Pt(P, 0, 0, 0)]}

InitConc ==
    /\ POSE \in PoseTypes
    /\ \E a \in ConcArgs(POSE) :
          heap = <<MagPoseFactor(a.pose_key, a.measured, a.scale, a.direction,
                                 a.bias, a.model, a.body_P_sensor)>>
    /\ archive = <<>>
    /\ last = NoCall
    /\ InitThreads

\* One storage for the automatic variables of every call.
FrameShared(t) == 1

\* Where the automatic variables of thread t's call live: in its own frame.
Frame(t) == t

BeginEvaluateError(t, nPb, hasH) ==
    /\ pc[t] = "idle"
    /\ pc' = [pc EXCEPT ![t] = "nRs"]
    /\ call' = [call EXCEPT ![t] = [NoCall EXCEPT !.op = "evaluateError",
                                                  !.this = 1,
                                                  !.nPb = <<nPb>>,
                                                  !.hasH = hasH]]
    /\ UNCHANGED <<POSE, heap, archive, last, frame, result>>

\* const Rot nRs = ...
StepRotation(t) ==
    /\ pc[t] = "nRs"
    /\ frame' = [frame EXCEPT ![Frame(t)].nRs =
                    SensorRotation(POSE, heap[1], call[t].nPb[1])]
    /\ pc' = [pc EXCEPT ![t] = "predict"]
    /\ UNCHANGED <<POSE, heap, archive, last, call, result>>

\* Matrix H_rot = ...; const Point hx = ...
StepPredict(t) ==
    /\ pc[t] = "predict"
    /\ LET p == PredictAt(POSE, heap[1], frame[Frame(t)].nRs)
       IN  frame' = [frame EXCEPT ![Frame(t)].H_rot = p.H_rot,
                                  ![Frame(t)].hx = p.hx]
    /\ pc' = [pc EXCEPT ![t] = "fill"]
    /\ UNCHANGED <<POSE, heap, archive, last, call, result>>

\* if (H) { ... }
StepFill(t) ==
    /\ pc[t] = "fill"
    /\ call' = IF call[t].hasH
               THEN [call EXCEPT ![t].retH =
                        JacobianFill(POSE, @, frame[Frame(t)].H_rot)]
               ELSE call
    /\ pc' = [pc EXCEPT ![t] = "return"]
    /\ UNCHANGED <<POSE, heap, archive, last, frame, result>>

\* return (hx - measured_);
StepReturn(t) ==
    /\ pc[t] = "return"
    /\ result' = [result EXCEPT ![t] =
                    [NoCall EXCEPT !.op = "evaluateError",
                                   !.retV = Residual(frame[Frame(t)].hx,
                                                     heap[1].measured_),
                                   !.retH = call[t].retH]]
    /\ pc' = [pc EXCEPT ![t] = "done"]
    /\ UNCHANGED <<POSE, heap, archive, last, call, frame>>

ThreadEquals(t, e, tol) ==
    /\ pc[t] = "idle"
    /\ call' = [call EXCEPT ![t] = [NoCall EXCEPT !.op = "equals", !.this = 1,
                                                  !.other = e, !.tol = tol]]
    /\ result' = [result EXCEPT ![t] =
                    [NoCall EXCEPT !.op = "equals",
                                   !.retB = equals(heap[1], heap[e], tol)]]
    /\ pc' = [pc EXCEPT ![t] = "done"]
    /\ UNCHANGED <<POSE, heap, archive, last, frame>>

ThreadClone(t) ==
    /\ pc[t] = "idle"
    /\ Len(heap) < MaxObjs
    /\ LET r == clone(heap, 1)
       IN  /\ heap' = r.heap
           /\ result' = [result EXCEPT ![t] =
                            [NoCall EXCEPT !.op = "clone", !.retO = r.ret]]
    /\ call' = [call EXCEPT ![t] = [NoCall EXCEPT !.op = "clone", !.this = 1]]
    /\ pc' = [pc EXCEPT ![t] = "done"]
    /\ UNCHANGED <<POSE, archive, last, frame>>

\* The caller takes the result; the call's frame is gone.
Finish(t) ==
    /\ pc[t] = "done"
    /\ pc' = [pc EXCEPT ![t] = "idle"]
    /\ call' = [call EXCEPT ![t] = NoCall]
    /\ result' = [result EXCEPT ![t] = NoCall]
    /\ frame' = [frame EXCEPT ![Frame(t)] = EmptyFrame(POSE)]
    /\ UNCHANGED <<POSE, heap, archive, last>>

NextConc ==
    \/ \E t \in Threads, nPb \in ConcPoses(POSE), hasH \in BOOLEAN :
          BeginEvaluateError(t, nPb, hasH)
    \/ \E t \in Threads : StepRotation(t)
    \/ \E t \in Threads : StepPredict(t)
    \/ \E t \in Threads : StepFill(t)
    \/ \E t \in Threads : StepReturn(t)
    \/ \E t \in Threads, e \in Objects, tol \in 0..MaxTol : ThreadEquals(t, e, tol)
    \/ \E t \in Threads : ThreadClone(t)
    \/ \E t \in Threads : Finish(t)

SpecConc == InitConc /\ [][NextConc]_vars

(***************************************************************************)
(* Properties.                                                             *)
(***************************************************************************)
ZeroVector(P) == Pt(P, 0, 0, 0)

\* The rotation nPb.rotation() o mount.rotation() applied to v, one rotation
\* at a time: the mount's first, then the pose's.
ToNav(P, f, nPb, v) ==
    IF f.body_P_sensor_ # <<>>
    THEN rotate(P, nPb.R, rotate(P, f.body_P_sensor_[1].R, v))
    ELSE rotate(P, nPb.R, v)

\* C1: evaluateError returns unrotate(R, localField) + bias - measured, with
\* R the pose's rotation composed with the mount's (the pose's alone without
\* a mount): the returned residual plus measured minus bias, rotated back by
\* R, is the local field; and a pose that explains the measurement exactly
\* gives the zero vector.
C1_ResidualIsPredictedMinusMeasured ==
    last.op = "evaluateError" =>
        LET f == heap[last.this]
            nPb == last.nPb[1]
        IN  /\ ToNav(POSE, f, nPb,
                     VSub(VAdd(last.retV, f.measured_), f.bias_)) = f.nM_
            /\ ToNav(POSE, f, nPb, VSub(f.measured_, f.bias_)) = f.nM_
                  => last.retV = ZeroVector(POSE)

C1_Witness ==
    /\ POSE = "Pose3"
    /\ last.op = "evaluateError"
    /\ heap[last.this].body_P_sensor_ = <<MountTurned(POSE)>>
    /\ last.nPb[1].R = QuarterZ(POSE)
    /\ last.retV # ZeroVector(POSE)

\* C2: with a Jacobian slot, on return the slot holds a MeasDim x PoseDim
\* matrix whose rotation columns are the H_rot of unrotate and whose other
\* columns are zero, whatever the slot held before.
C2_JacobianSlot ==
    (last.op = "evaluateError" /\ last.hasH) =>
        LET f == heap[last.this]
            nPb == last.nPb[1]
            rot0 == rotationInterval(POSE)[1]
            Hrot == unrotate(POSE, SensorRotation(POSE, f, nPb), f.nM_).H1
        IN  /\ Len(last.retH) = MeasDim(POSE)
            /\ \A i \in 1..MeasDim(POSE) :
                  /\ Len(last.retH[i]) = PoseDim(POSE)
                  /\ \A j \in 1..PoseDim(POSE) :
                        last.retH[i][j] =
                            IF rot0 < j /\ j <= rot0 + RotDim(POSE)
                            THEN Hrot[i][j - rot0]
                            ELSE 0

C2_Witness ==
    /\ last.op = "evaluateError"
    /\ last.hasH
    /\ Len(last.Hin) = MeasDim(POSE)
    /\ last.Hin[1][1] = 7
    /\ \E i \in 1..MeasDim(POSE), j \in 1..PoseDim(POSE) : last.retH[i][j] # 0

\* C3: two poses with the same rotation and different translations get the
\* same residual and the same Jacobian, and the Jacobian's translation
\* columns are zero.
C3_TranslationInvariant ==
    last.op = "evaluateError" =>
        LET f == heap[last.this]
            nPb == last.nPb[1]
        IN  /\ \A p \in Poses(POSE) :
                  (p.R = nPb.R /\ p.t # nPb.t) =>
                      evaluateError(POSE, f, p, last.hasH, last.Hin)
                          = [ret |-> last.retV, H |-> last.retH]
            /\ last.hasH =>
                  \A i \in 1..MeasDim(POSE) :
                      \A j \in (translationInterval(POSE)[1] + 1)
                                  ..(translationInterval(POSE)[2] + 1) :
                          last.retH[i][j] = 0

C3_Witness ==
    /\ last.op = "evaluateError"
    /\ last.hasH
    /\ heap[last.this].body_P_sensor_ # <<>>
    /\ last.nPb[1].t # ZeroVector(POSE)
    /\ last.nPb[1].R # Identity(POSE)
    /\ \E p \in Poses(POSE) : p.R = last.nPb[1].R /\ p.t # last.nPb[1].t

\* Unit perturbations of the pose's rotational coordinates.
RotationalPerturbations(P) ==
    {[j \in 1..PoseDim(P) |-> IF j = k THEN 1 ELSE 0] : k \in BlockCols(P)}

\* The first-order term of evaluate(nPb (+) d) - evaluate(nPb): the residual
\* is linear in the entries of the pose's rotation, so it is the prediction
\* made from the rotation's tangent, without bias and measurement.
FirstOrderChange(P, f, nPb, d) ==
    LET dR == RotTangent(P, nPb.R, RotPart(P, d))
    IN  unrotate(P, SensorRotation(P, f, [R |-> dR, t |-> nPb.t]), f.nM_).q

\* C4: the Jacobian is the derivative of the residual in the pose's own
\* rotational coordinates: Jacobian * d is the first-order term of
\* evaluate(pose (+) d) - evaluate(pose), with or without a sensor mount.
C4_JacobianIsDerivative ==
    (last.op = "evaluateError" /\ last.hasH) =>
        \A d \in RotationalPerturbations(POSE) :
            MatVec(last.retH, d)
                = FirstOrderChange(POSE, heap[last.this], last.nPb[1], d)

\* C5: equals is true exactly when the other factor is a MagPoseFactor, the
\* keys are the same, the noise models are compatible and measured,
\* localField and bias agree within tol in every component; the mount is not
\* compared.
C5_EqualsIgnoresMount ==
    last.op = "equals" =>
        LET f == heap[last.this]
            e == heap[last.other]
            Within(a, b) ==
                \A i \in 1..MeasDim(POSE) :
                    a[i] - b[i] <= last.tol /\ b[i] - a[i] <= last.tol
        IN  /\ last.retB <=>
                  /\ e.type = "MagPoseFactor"
                  /\ f.keys = e.keys
                  /\ BaseEquals(f, e, last.tol)
                  /\ Within(f.measured_, e.measured_)
                  /\ Within(f.nM_, e.nM_)
                  /\ Within(f.bias_, e.bias_)
            /\ [f EXCEPT !.body_P_sensor_ = <<>>]
                  = [e EXCEPT !.body_P_sensor_ = <<>>] => last.retB

C5_Witness ==
    /\ last.op = "equals"
    /\ last.retB
    /\ heap[last.this].body_P_sensor_ # heap[last.other].body_P_sensor_
    /\ heap[last.this].keys # <<>>

\* C6: clone returns another object with the same key, measured, localField,
\* bias and mount, which equals the original and evaluates as it does.
C6_CloneIsEqualCopy ==
    last.op = "clone" =>
        LET f == heap[last.this]
            c == heap[last.retO]
        IN  /\ last.retO # last.this
            /\ c.type = "MagPoseFactor"
            /\ c.keys = f.keys
            /\ c.measured_ = f.measured_
            /\ c.nM_ = f.nM_
            /\ c.bias_ = f.bias_
            /\ c.body_P_sensor_ = f.body_P_sensor_
            /\ equals(c, f, 0)
            /\ \A p \in Poses(POSE) :
                  evaluateError(POSE, c, p, TRUE, <<>>)
                      = evaluateError(POSE, f, p, TRUE, <<>>)

C6_Witness ==
    /\ last.op = "clone"
    /\ heap[last.this].body_P_sensor_ # <<>>
    /\ heap[last.retO] = heap[last.this]
    /\ last.retO # last.this

\* C7: serialize writes base-factor state, measured, localField, bias and the
\* mount, in this order; reading them into a factor reproduces every field,
\* so that the factor equals the one that was written.
C7_SerializeRoundTrip ==
    /\ last.op = "save" =>
          LET f == heap[last.this]
          IN  /\ Len(archive) = 5
              /\ [i \in 1..5 |-> archive[i][1]]
                    = <<"NoiseModelFactor1", "measured_", "nM_", "bias_",
                        "body_P_sensor_">>
              /\ archive[1][2] = [keys |-> f.keys, noiseModel |-> f.noiseModel]
              /\ archive[2][2] = f.measured_
              /\ archive[3][2] = f.nM_
              /\ archive[4][2] = f.bias_
              /\ archive[5][2] = f.body_P_sensor_
    /\ last.op = "load" =>
          LET f == heap[last.this]
          IN  /\ f.keys = archive[1][2].keys
              /\ f.noiseModel = archive[1][2].noiseModel
              /\ f.measured_ = archive[2][2]
              /\ f.nM_ = archive[3][2]
              /\ f.bias_ = archive[4][2]
              /\ f.body_P_sensor_ = archive[5][2]
              /\ \E o \in Objects : serializeSave(heap[o]) = archive
              /\ \A o \in Objects :
                    serializeSave(heap[o]) = archive =>
                        /\ heap[o] = f
                        /\ equals(f, heap[o], 0)

C7_Witness ==
    /\ last.op = "load"
    /\ last.fresh
    /\ heap[last.this].body_P_sensor_ # <<>>
    /\ heap[last.this].keys # <<>>
    /\ \E o \in Objects : o # last.this /\ heap[o] = heap[last.this]

C9_ConcurrentCallsArePure ==
    [][/\ heap'[1] = heap[1]
       /\ \A t \in Threads :
             (pc'[t] = "done" /\ pc[t] # "done") =>
                 LET c == call'[t]
                     r == result'[t]
                 IN  /\ c.op = "evaluateError" =>
                           LET alone == evaluateError(POSE, heap[1], c.nPb[1],
                                                      c.hasH, <<>>)
                           IN  r.retV = alone.ret /\ r.retH = alone.H
                     /\ c.op = "equals" =>
                           r.retB = equals(heap[1], heap[c.other], c.tol)
                     /\ c.op = "clone" =>
                           /\ r.retO # 1
                           /\ heap'[r.retO] = heap[1]]_vars

C9_Witness ==
    /\ pc[1] = "done"
    /\ result[1].op = "evaluateError"
    /\ pc[2] = "fill"
    /\ call[1].nPb # call[2].nPb
    /\ call[1].hasH
    /\ Len(heap) > 1

====
